---- MODULE Spec2Model ----
(***************************************************************************)
(* A model of the chart analytics of the Quarterly Financial Analysis      *)
(* dashboard: annual bucketing, period labels, range selection, anomaly    *)
(* detection, insight generation, and the MetricsTab component that feeds  *)
(* them.                                                                   *)
(*                                                                         *)
(* JavaScript values are modelled as follows.                              *)
(*  - a number is a record [k, n, d]: k = "fin" is the rational n/d with   *)
(*    d > 0; k = "nan", "pinf", "ninf" are NaN, +Infinity, -Infinity;      *)
(*    k = "undef" is the value undefined (a missing property).  Arithmetic *)
(*    is exact (binary rounding is not modelled).                          *)
(*  - a string is a sequence of UTF-16 code units.                         *)
(*  - a TableDate is [k, y, m]: k = "ok" is a parseable date in year y and *)
(*    zero-based month m; k = "bad" is a missing or unparseable value      *)
(*    (new Date of it is an Invalid Date); k = "null" is the JSON null     *)
(*    (falsy, and new Date(null) is the epoch).                            *)
(*  - a record of the dataset is [TableDate, v, row]: v is the value of    *)
(*    the plotted metric, row the position of the object in the response   *)
(*    (the object's identity).                                             *)
(***************************************************************************)
EXTENDS Integers, Sequences, FiniteSets, TLC

\* ------------------------------------------------------------------ bounds
\* largest number of records in a dataset handed to a pure function
MaxRecords == 3
\* largest number of records in a response of the backend
MaxTabRecords == 2
\* largest number of points handed to generateInsights / detectAnomalies
MaxSeries == 5
\* largest anomaly threshold tried
MaxThreshold == 3
\* largest number of fetches a tab issues in one behaviour
MaxRequests == 2
\* largest number of records in a dataset run through the whole chart
MaxPipeline == 3
\* largest number of points of a series of values on the thresholds
MaxThresholdSeries == 3

Years == {2021, 2022}
Months == {2, 11}
\* metric values of the anomaly detector's input: ratios on, above and
\* below the thresholds, of positive and of negative values
AnomalyValues == {-30, -10, 0, 10, 20, 30, 40}
\* metric values of the insight generator's input: changes of +23%, -19%,
\* +100%, -50%, ..., none of them on a threshold
InsightValues == {0, 30, 37, 60}
\* metric values on the thresholds: changes of exactly +20% and -20%
\* (30 to 36 and to 24), a volatility of exactly 0.3 (17 and 23), and a
\* negative value, which makes a mean of 0 or below
ThresholdValues == {-30, 17, 23, 24, 30, 36}
InsightMetrics == {"Revenue", "Gross Profit", "Net Income"}
\* metric names with the keyword margin, and with two keywords
KeywordMetrics == {"Gross Margin(%)", "Revenue vs Gross Profit", "Net Profit Margin"}
RowValues == {10, 20}
Companies == {"DIPD", "REXP"}
MetricNames == {"Revenue", "Net Income"}
Tabs == {"metrics", "comparison", "ratio"}

\* ------------------------------------------------------------ JS numbers
Fin(n) == [k |-> "fin", n |-> n, d |-> 1]
Rat(n, d) == [k |-> "fin", n |-> n, d |-> d]
NaN == [k |-> "nan", n |-> 0, d |-> 1]
PInf == [k |-> "pinf", n |-> 0, d |-> 1]
NInf == [k |-> "ninf", n |-> 0, d |-> 1]
Undef == [k |-> "undef", n |-> 0, d |-> 1]

\* ToNumber: undefined becomes NaN
ToNumber(x) == IF x.k = "undef" THEN NaN ELSE x

Max(a, b) == IF a > b THEN a ELSE b

Sign(i) == IF i > 0 THEN 1 ELSE IF i < 0 THEN -1 ELSE 0

\* the sign of a number that is not NaN, with the infinities as +-2
Rank(x) == IF x.k = "pinf" THEN 2 ELSE IF x.k = "ninf" THEN -2 ELSE Sign(x.n)

JSNeg(a) ==
  LET x == ToNumber(a) IN
  CASE x.k = "nan" -> NaN
    [] x.k = "pinf" -> NInf
    [] x.k = "ninf" -> PInf
    [] OTHER -> Rat(-x.n, x.d)

JSAdd(a, b) ==
  LET x == ToNumber(a)
      y == ToNumber(b) IN
  CASE x.k = "nan" \/ y.k = "nan" -> NaN
    [] x.k = "fin" /\ y.k = "fin" -> Rat(x.n * y.d + y.n * x.d, x.d * y.d)
    [] x.k = "fin" -> y
    [] y.k = "fin" -> x
    [] x.k = y.k -> x
    [] OTHER -> NaN

JSSub(a, b) == JSAdd(a, JSNeg(b))

JSMul(a, b) ==
  LET x == ToNumber(a)
      y == ToNumber(b) IN
  CASE x.k = "nan" \/ y.k = "nan" -> NaN
    [] x.k = "fin" /\ y.k = "fin" -> Rat(x.n * y.n, x.d * y.d)
    [] Rank(x) * Rank(y) > 0 -> PInf
    [] Rank(x) * Rank(y) < 0 -> NInf
    [] OTHER -> NaN

JSDiv(a, b) ==
  LET x == ToNumber(a)
      y == ToNumber(b) IN
  CASE x.k = "nan" \/ y.k = "nan" -> NaN
    [] x.k = "fin" /\ y.k = "fin" /\ y.n # 0 ->
         IF y.n > 0 THEN Rat(x.n * y.d, x.d * y.n) ELSE Rat(-(x.n * y.d), x.d * (-y.n))
    [] x.k = "fin" /\ y.k = "fin" ->
         IF x.n > 0 THEN PInf ELSE IF x.n < 0 THEN NInf ELSE NaN
    [] x.k = "fin" -> Fin(0)
    [] y.k = "fin" -> IF Rank(x) * (IF y.n < 0 THEN -1 ELSE 1) > 0 THEN PInf ELSE NInf
    [] OTHER -> NaN

\* isNaN(x)
IsNaN(x) == ToNumber(x).k = "nan"

\* a < b as JavaScript evaluates it: false whenever an operand is NaN
JSLt(a, b) ==
  LET x == ToNumber(a)
      y == ToNumber(b) IN
  CASE x.k = "nan" \/ y.k = "nan" -> FALSE
    [] x.k = "fin" /\ y.k = "fin" -> x.n * y.d < y.n * x.d
    [] x.k = y.k -> FALSE
    [] OTHER -> x.k = "ninf" \/ y.k = "pinf"

\* a >= b
JSGe(a, b) == JSLt(b, a) \/ (~IsNaN(a) /\ ~IsNaN(b) /\ ~JSLt(a, b))

\* a > b
JSGt(a, b) == JSLt(b, a)

\* Math.abs
MathAbs(a) ==
  LET x == ToNumber(a) IN
  CASE x.k = "nan" -> NaN
    [] x.k = "fin" -> Rat(IF x.n < 0 THEN -x.n ELSE x.n, x.d)
    [] OTHER -> PInf

\* Math.max(...s) and Math.min(...s): NaN if an element is NaN
MathMax(s) ==
  IF \E i \in 1..Len(s) : ToNumber(s[i]).k = "nan" THEN NaN
  ELSE IF Len(s) = 0 THEN NInf
  ELSE ToNumber(s[CHOOSE i \in 1..Len(s) : \A j \in 1..Len(s) : ~JSLt(s[i], s[j])])

\* a minimum that is the maximum
LargestForMin(s) == MathMax(s)

MathMin(s) ==
  IF \E i \in 1..Len(s) : ToNumber(s[i]).k = "nan" THEN NaN
  ELSE IF Len(s) = 0 THEN PInf
  ELSE ToNumber(s[CHOOSE i \in 1..Len(s) : \A j \in 1..Len(s) : ~JSLt(s[j], s[i])])

\* truthiness of a metric value: undefined, NaN and 0 are falsy
Truthy(x) == x.k \in {"pinf", "ninf"} \/ (x.k = "fin" /\ x.n # 0)

\* SameValueZero, the equality of Set, Map and Array.prototype.includes:
\* NaN equals NaN
SameValueZero(a, b) ==
  \/ a.k = b.k /\ a.k # "fin"
  \/ a.k = "fin" /\ b.k = "fin" /\ a.n * b.d = b.n * a.d

\* ------------------------------------------------------------ JS strings
MaxDigits == 6

\* the decimal digits of a non-negative integer, as code units
Digits(n) ==
  LET len == CHOOSE l \in 1..MaxDigits : n < 10^l /\ (l = 1 \/ n >= 10^(l - 1))
  IN [i \in 1..len |-> 48 + ((n \div 10^(len - i)) % 10)]

StrNaN == <<78, 97, 78>>

\* ToString of a year or quarter number (a non-negative integer or NaN)
NumToString(x) == IF x.k = "fin" THEN Digits(x.n \div x.d) ELSE StrNaN

\* the comparison of two strings by code units: -1, 0 or 1
StrCompare(s, t) ==
  LET common == IF Len(s) < Len(t) THEN Len(s) ELSE Len(t)
      differ == {i \in 1..common : s[i] # t[i]}
  IN IF differ = {}
     THEN (IF Len(s) < Len(t) THEN -1 ELSE IF Len(s) > Len(t) THEN 1 ELSE 0)
     ELSE LET i == CHOOSE j \in differ : \A h \in differ : j <= h
          IN IF s[i] < t[i] THEN -1 ELSE 1

StrInfinity == <<73, 110, 102, 105, 110, 105, 116, 121>>
StrMinus == <<45>>
StrPoint == <<46>>

\* Number.prototype.toFixed(1): the nearest number with one decimal, a tie
\* going away from zero; "NaN", "Infinity" and "-Infinity" as they are
ToFixed1(a) ==
  LET x == ToNumber(a) IN
  CASE x.k = "nan" -> StrNaN
    [] x.k = "pinf" -> StrInfinity
    [] x.k = "ninf" -> StrMinus \o StrInfinity
    [] OTHER ->
         LET mag == IF x.n < 0 THEN -x.n ELSE x.n
             tenths == (mag * 20 + x.d) \div (2 * x.d)
         IN (IF x.n < 0 THEN StrMinus ELSE <<>>)
              \o Digits(tenths \div 10) \o StrPoint \o Digits(tenths % 10)

\* whether the string s contains the string t
StrIncludes(s, t) ==
  \E i \in 1..(Len(s) - Len(t) + 1) : SubSeq(s, i, i + Len(t) - 1) = t

\* ------------------------------------------------------------------ dates
\* new Date(null) is the epoch, 1 January 1970
OkDate(y, m) == [k |-> "ok", y |-> y, m |-> m]
BadDate == [k |-> "bad", y |-> 0, m |-> 0]
NullDate == [k |-> "null", y |-> 0, m |-> 0]

\* new Date(td).getFullYear()
GetFullYear(td) ==
  CASE td.k = "ok" -> Fin(td.y)
    [] td.k = "null" -> Fin(1970)
    [] OTHER -> NaN

\* new Date(td).getMonth()
GetMonth(td) ==
  CASE td.k = "ok" -> Fin(td.m)
    [] td.k = "null" -> Fin(0)
    [] OTHER -> NaN

\* new Date(td).getTime(), in months since year 0 (the order of the
\* millisecond time stamps, at the resolution of the model's dates)
GetTime(td) ==
  CASE td.k = "ok" -> Fin(td.y * 12 + td.m)
    [] td.k = "null" -> Fin(1970 * 12)
    [] OTHER -> NaN

\* d.TableDate && !isNaN(new Date(d.TableDate).getTime())
IsValidRecord(r) == r.TableDate.k # "null" /\ ~IsNaN(GetTime(r.TableDate))

\* --------------------------------------------------------- Array helpers
\* the elements of s without repeats, each at its first occurrence, under
\* the equality Same (a Set's or a Map's keys, or filter with indexOf)
Distinct(s, Same(_, _)) ==
  LET kept[k \in 0..Len(s)] ==
        IF k = 0 THEN <<>>
        ELSE LET prev == kept[k - 1]
                 x == s[k]
             IN IF \E j \in 1..Len(prev) : Same(prev[j], x) THEN prev ELSE Append(prev, x)
  IN kept[Len(s)]

\* a === b on strings
StrictEquals(a, b) == a = b

\* the sequences in which Array.prototype.sort may leave s under the
\* comparator Cmp (a result < 0, = 0 or > 0; NaN counts as 0).  With a
\* consistent comparator the sort is stable and the result is unique; with an
\* inconsistent one the order is implementation-defined.
Consistent(s, Cmp(_, _)) ==
  LET n == Len(s)
      signs == {<<i, j, Sign(Cmp(s[i], s[j]))>> : i, j \in 1..n}
      Is(i, j, v) == <<i, j, v>> \in signs
  IN \A i, j \in 1..n :
       /\ \A v \in {-1, 0, 1} : Is(i, j, v) => Is(j, i, -v)
       /\ \A l \in 1..n :
            /\ (Is(i, j, 0) /\ Is(j, l, 0)) => Is(i, l, 0)
            /\ (Is(i, j, -1) /\ Is(j, l, -1)) => Is(i, l, -1)

\* the stable sort of s under a consistent comparator, by insertion: each
\* element goes behind the elements that do not order after it
SortBy(s, Cmp(_, _)) ==
  LET sorted[k \in 0..Len(s)] ==
        IF k = 0 THEN <<>>
        ELSE LET prev == sorted[k - 1]
                 x == s[k]
                 at == Cardinality({j \in 1..(k - 1) : Cmp(prev[j], x) <= 0})
             IN SubSeq(prev, 1, at) \o <<x>> \o SubSeq(prev, at + 1, k - 1)
  IN sorted[Len(s)]

SortOutcomes(s, Cmp(_, _)) ==
  IF Consistent(s, Cmp) THEN {SortBy(s, Cmp)}
  ELSE {[i \in 1..Len(s) |-> s[p[i]]] : p \in Permutations(1..Len(s))}

\* ---------------------------------------------- getLastQuarterDataPerYear
\* the keys of the Map, in insertion order: the distinct years in order of
\* first occurrence (Map keys compare by SameValueZero)
MapKeys(records) ==
  Distinct([i \in 1..Len(records) |-> GetFullYear(records[i].TableDate)], SameValueZero)

\* the Map's values, in key order: map.set overwrites, so the last record of
\* a year stays
MapValuesFirstWins(records) ==
  LET keys == MapKeys(records)
      firstOf(key) == CHOOSE i \in 1..Len(records) :
                        /\ SameValueZero(GetFullYear(records[i].TableDate), key)
                        /\ \A j \in 1..(i - 1) : ~SameValueZero(GetFullYear(records[j].TableDate), key)
  IN [x \in 1..Len(keys) |-> records[firstOf(keys[x])]]

MapValues(records) ==
  LET keys == MapKeys(records)
      lastOf(key) == CHOOSE i \in 1..Len(records) :
                       /\ SameValueZero(GetFullYear(records[i].TableDate), key)
                       /\ \A j \in (i + 1)..Len(records) : ~SameValueZero(GetFullYear(records[j].TableDate), key)
  IN [x \in 1..Len(keys) |-> records[lastOf(keys[x])]]

\* (a, b) => new Date(a.TableDate) - new Date(b.TableDate), as the sort reads
\* it: its sign, 0 for NaN
DateComparatorReversed(a, b) ==
  LET diff == JSSub(GetTime(b.TableDate), GetTime(a.TableDate))
  IN IF diff.k = "nan" THEN 0 ELSE Rank(diff)

DateComparator(a, b) ==
  LET diff == JSSub(GetTime(a.TableDate), GetTime(b.TableDate))
  IN IF diff.k = "nan" THEN 0 ELSE Rank(diff)

\* a bucketer that returns the records as they are
NoBucketing(records) == {records}

\* the arrays getLastQuarterDataPerYear(data) may return
GetLastQuarterDataPerYear(records) == SortOutcomes(MapValues(records), DateComparator)

\* --------------------------------------------------------- period labels
StrQ == <<32, 81>>

\* `${year} Q${q}` with q = Math.floor(date.getMonth() / 3) + 1
QuarterLabel(td) ==
  LET month == GetMonth(td)
      q == IF month.k = "fin" THEN Fin((month.n \div 3) + 1) ELSE NaN
  IN NumToString(GetFullYear(td)) \o StrQ \o NumToString(q)

\* Array.prototype.sort() without a comparator orders by the elements'
\* strings, compared by code units
DefaultComparator(a, b) == StrCompare(NumToString(a), NumToString(b))

\* Array.from(new Set(data.map(year))).sort()
YearOptions(records) == SortBy(MapKeys(records), DefaultComparator)

\* data.map(label).filter((v, i, arr) => arr.indexOf(v) === i).sort()
QuarterOptions(records) ==
  LET labels == [i \in 1..Len(records) |-> QuarterLabel(records[i].TableDate)]
      distinct == Distinct(labels, StrictEquals)
  IN SortBy(distinct, StrCompare)

\* ------------------------------------------------------- range selection
\* a slice that swaps its bounds when the first is behind the second, as
\* String.prototype.substring does
SliceSwapping(s, b, e) ==
  LET n == Len(s)
      lo == IF b < e THEN b ELSE e
      hi == IF b < e THEN e ELSE b
      from == IF lo < 0 THEN 0 ELSE IF lo > n THEN n ELSE lo
      to == IF hi < 0 THEN 0 ELSE IF hi > n THEN n ELSE hi
  IN IF from >= to THEN <<>> ELSE [i \in 1..(to - from) |-> s[from + i]]

\* a slice that takes a negative first index for 0, as
\* String.prototype.substring does
SliceFromStart(s, b, e) ==
  LET n == Len(s)
      from == IF b < 0 THEN 0 ELSE IF b > n THEN n ELSE b
      to == IF e < 0 THEN 0 ELSE IF e > n THEN n ELSE e
  IN IF from >= to THEN <<>> ELSE [i \in 1..(to - from) |-> s[from + i]]

\* Array.prototype.slice(b, e): negative indices count from the end
Slice(s, b, e) ==
  LET n == Len(s)
      from == IF b < 0 THEN (IF n + b < 0 THEN 0 ELSE n + b) ELSE (IF b > n THEN n ELSE b)
      to == IF e < 0 THEN (IF n + e < 0 THEN 0 ELSE n + e) ELSE (IF e > n THEN n ELSE e)
  IN IF from >= to THEN <<>> ELSE [i \in 1..(to - from) |-> s[from + i]]

\* a filter that lets every record through
AllData(records) == records

\* data.filter(d => d.TableDate && !isNaN(new Date(d.TableDate).getTime()))
ValidData(records) == SelectSeq(records, IsValidRecord)

\* selectedYears.includes(year): SameValueZero
IncludesNum(s, x) == \E i \in 1..Len(s) : SameValueZero(s[i], x)

\* selectedQuarters.includes(label): strict equality of strings
IncludesStr(s, x) == \E i \in 1..Len(s) : s[i] = x

\* filteredData of MetricsChart and ComparisonChart
FilteredData(records, annual, yRange, yOptions, qRange, qOptions) ==
  LET validData == ValidData(records)
      selectedYears == Slice(yOptions, yRange[1], yRange[2] + 1)
      selectedQuarters == Slice(qOptions, qRange[1], qRange[2] + 1)
      inYears(d) == IncludesNum(selectedYears, GetFullYear(d.TableDate))
      inQuarters(d) == IncludesStr(selectedQuarters, QuarterLabel(d.TableDate))
  IN IF annual /\ Len(yOptions) > 0 THEN SelectSeq(validData, inYears)
     ELSE IF ~annual /\ Len(qOptions) > 0 THEN SelectSeq(validData, inQuarters)
     ELSE validData

\* ------------------------------------------------------- detectAnomalies
\* detectAnomalies(data, metric, threshold), the records holding the metric
\* in field v; of the message, the percentage is kept
DetectAnomalies(records, threshold) ==
  LET found[k \in 1..Max(1, Len(records))] ==
        IF k = 1 THEN <<>>
        ELSE LET before == found[k - 1]
                 prev == records[k - 1].v
                 curr == records[k].v
                 ratio == JSDiv(curr, prev)
             IN IF Truthy(prev) /\ Truthy(curr)
                THEN IF JSGt(ratio, threshold)
                     THEN Append(before,
                            [index |-> k - 1, type |-> "spike",
                             percent |-> ToFixed1(JSSub(JSMul(ratio, Fin(100)), Fin(100)))])
                     ELSE IF JSLt(ratio, JSDiv(Fin(1), threshold))
                     THEN Append(before,
                            [index |-> k - 1, type |-> "drop",
                             percent |-> ToFixed1(JSSub(Fin(100), JSMul(ratio, Fin(100))))])
                     ELSE before
                ELSE before
  IN IF Len(records) = 0 THEN <<>> ELSE found[Len(records)]

\* ------------------------------------------------------ generateInsights
\* the code units of the metric names and of the keywords
CodeUnits(str) ==
  CASE str = "Revenue" -> <<82, 101, 118, 101, 110, 117, 101>>
    [] str = "Gross Profit" -> <<71, 114, 111, 115, 115, 32, 80, 114, 111, 102, 105, 116>>
    [] str = "Net Income" -> <<78, 101, 116, 32, 73, 110, 99, 111, 109, 101>>
    [] str = "Gross Margin(%)" -> <<71, 114, 111, 115, 115, 32, 77, 97, 114, 103, 105, 110, 40, 37, 41>>
    [] str = "Revenue vs Gross Profit" -> <<82, 101, 118, 101, 110, 117, 101, 32, 118, 115, 32, 71, 114, 111, 115, 115, 32, 80, 114, 111, 102, 105, 116>>
    [] str = "Net Profit Margin" -> <<78, 101, 116, 32, 80, 114, 111, 102, 105, 116, 32, 77, 97, 114, 103, 105, 110>>
    [] str = "revenue" -> <<114, 101, 118, 101, 110, 117, 101>>
    [] str = "profit" -> <<112, 114, 111, 102, 105, 116>>
    [] str = "margin" -> <<109, 97, 114, 103, 105, 110>>

\* a toLowerCase that leaves the string as it is
ToLowerCaseNot(s) == s

\* String.prototype.toLowerCase, on the letters A to Z
ToLowerCase(s) == [i \in 1..Len(s) |-> IF s[i] \in 65..90 THEN s[i] + 32 ELSE s[i]]

\* metric.toLowerCase().includes(word)
MetricIncludes(metric, word) ==
  StrIncludes(ToLowerCase(CodeUnits(metric)), CodeUnits(word))

\* insights.push(insight), as a list of no or one insight added at the front
PushFront(insights, more) == more \o insights

\* insights.push(insight)
Push(insights, more) == insights \o more

\* an insight: its type and its text, the text as its opening words and the
\* number it quotes (empty if it quotes none)
Insight(type, head, number) == [type |-> type, head |-> head, number |-> number]

GenerateInsights(records, metric, annual) ==
  LET validData == ValidData(records)
      values == [i \in 1..Len(validData) |-> validData[i].v]
      n == Len(validData)
      latestValue == values[n]
      previousValue == values[n - 1]
      percentChange == JSMul(JSDiv(JSSub(latestValue, previousValue), previousValue), Fin(100))
      recentValues == Slice(values, -4, n)
      m == Len(recentValues)
      diffs[k \in 1..m] ==
        IF k = 1 THEN Fin(0)
        ELSE JSAdd(diffs[k - 1], JSSub(recentValues[k], recentValues[k - 1]))
      trend == JSDiv(diffs[m], Fin(m - 1))
      maxValue == MathMax(recentValues)
      minValue == MathMin(recentValues)
      total[k \in 0..m] == IF k = 0 THEN Fin(0) ELSE JSAdd(total[k - 1], recentValues[k])
      avgValue == JSDiv(total[m], Fin(m))
      volatility == JSDiv(JSSub(maxValue, minValue), avgValue)
      growth[k \in 1..m] ==
        IF k = 1 THEN Fin(0)
        ELSE JSAdd(growth[k - 1],
                   JSDiv(JSSub(recentValues[k], recentValues[k - 1]), recentValues[k - 1]))
      yearlyGrowth == JSDiv(growth[m], Fin(3))
      change ==
        IF JSGt(percentChange, Fin(20))
          THEN <<Insight("positive", "Strong growth", ToFixed1(percentChange))>>
        ELSE IF JSLt(percentChange, Fin(-20))
          THEN <<Insight("negative", "Significant decline", ToFixed1(MathAbs(percentChange)))>>
        ELSE <<>>
      direction ==
        IF JSGt(trend, Fin(0)) THEN <<Insight("positive", "Upward trend", <<>>)>>
        ELSE IF JSLt(trend, Fin(0)) THEN <<Insight("negative", "Downward trend", <<>>)>>
        ELSE <<>>
      swings ==
        IF JSGt(volatility, Rat(3, 10)) THEN <<Insight("warning", "High volatility", <<>>)>>
        ELSE <<>>
      yearly ==
        IF annual /\ JSGt(yearlyGrowth, Rat(1, 10))
          THEN <<Insight("info", "Strong annual growth",
                         ToFixed1(JSMul(yearlyGrowth, Fin(100))))>>
        ELSE <<>>
      context ==
        IF MetricIncludes(metric, "revenue")
          THEN IF JSGt(percentChange, Fin(0)) THEN <<Insight("info", "Revenue growth", <<>>)>>
               ELSE <<>>
        ELSE IF MetricIncludes(metric, "profit")
          THEN IF JSGt(percentChange, Fin(0)) THEN <<Insight("info", "Profit growth", <<>>)>>
               ELSE <<>>
        ELSE IF MetricIncludes(metric, "margin")
          THEN IF JSGt(percentChange, Fin(0)) THEN <<Insight("info", "Margin improvement", <<>>)>>
               ELSE <<>>
        ELSE <<>>
  IN IF n < 2 THEN <<>>
     ELSE Push(Push(Push(Push(Push(<<>>, change), direction), swings), yearly), context)

Placeholder == [type |-> "none", head |-> "No significant insights", number |-> <<>>]

\* a panel that always shows the placeholder
PanelItemsWithPlaceholder(insights) == insights \o <<Placeholder>>

\* the list items AIInsightsPanel renders: one per insight, and the
\* placeholder when insights.length === 0
PanelItems(insights) ==
  insights \o (IF Len(insights) = 0 THEN <<Placeholder>> ELSE <<>>)

\* ------------------------------------------------------------------ state
VARIABLES
  tab,
  selectedCompany,
  selectedMetric,
  data,
  yearOptions,
  quarterOptions,
  isAnnual,
  loading,
  error,
  yearRange,
  quarterRange,
  inflight,
  issued,
  due,
  displayData,
  lastChange,
  narrowed,
  origin,
  arrival,
  call

\* tab: which of MetricsTab, ComparisonTab, RatioTab is mounted
\* selectedCompany, selectedMetric: App's selectedCompany and subTab, the
\*   props of the tab
\* data, isAnnual .. quarterRange: the tab's useState cells
\* yearOptions, quarterOptions: the label lists the last render computed
\*   from data
\* inflight: the fetches awaiting their response; issued: how many were sent
\* due: the effects whose dependencies changed in the last render and that
\*   have not run yet
\* displayData: the data prop the last render handed to the chart
\* lastChange: the last of toggle / change of the active label count /
\*   slider move (a history variable, only read by properties)
\* narrowed: whether the active range was narrower than the label list when
\*   that toggle or change of the label count happened (a history variable)
\* origin: the requests whose response is in data and whose failure is in
\*   error, 0 for none (a history variable, only read by properties)
\* arrival: "same" once a response brought a different dataset with as many
\*   year labels and as many quarter labels as the one before, "other" after
\*   any other response, "none" after a toggle or a slider move (a history
\*   variable, only read by properties)
\* call: the pure function under check, its arguments and its result

tabVars == <<tab, selectedCompany, selectedMetric, data, yearOptions, quarterOptions,
             isAnnual, loading, error, yearRange, quarterRange, inflight, issued, due,
             displayData, lastChange, narrowed, origin, arrival>>
vars == <<tab, selectedCompany, selectedMetric, data, yearOptions, quarterOptions,
          isAnnual, loading, error, yearRange, quarterRange, inflight, issued, due,
          displayData, lastChange, narrowed, origin, arrival, call>>

Dates == {OkDate(y, m) : y \in Years, m \in Months} \cup {BadDate, NullDate}

\* the datasets of at most n records
Datasets(n, dates, values) ==
  UNION {{[i \in 1..l |-> [TableDate |-> f[i][1], v |-> Fin(f[i][2]), row |-> i]] :
            f \in [1..l -> dates \X values]} : l \in 0..n}

NoError == "null"
NoCall == [fn |-> "none"]
AllEffects == {"fetch", "year", "quarter"}

\* useState initial values: the ranges are computed from the empty data
InitialYearRange(t) == IF t = "ratio" THEN <<0, -1>> ELSE <<0, Max(0, -1)>>

\* the tab after its first render: every effect is due
Mounted(tabs, companies, metrics) ==
  /\ tab \in tabs
  /\ selectedCompany \in companies
  /\ selectedMetric \in IF tab = "metrics" THEN metrics ELSE {"Revenue"}
  /\ data = <<>>
  /\ yearOptions = YearOptions(<<>>)
  /\ quarterOptions = QuarterOptions(<<>>)
  /\ isAnnual = FALSE
  /\ loading = FALSE
  /\ error = NoError
  /\ yearRange = InitialYearRange(tab)
  /\ quarterRange = <<0, Max(0, -1)>>
  /\ inflight = {}
  /\ issued = 0
  /\ due = AllEffects
  /\ displayData = <<>>
  /\ lastChange = "none"
  /\ narrowed = FALSE
  /\ origin = [data |-> 0, error |-> 0]
  /\ arrival = "none"

\* the tab as the pure-function specifications leave it: mounted, untouched
Parked == Mounted({"metrics"}, {"DIPD"}, {"Revenue"})

\* ------------------------------- specification: getLastQuarterDataPerYear
BucketInit ==
  /\ Parked
  /\ call \in {[fn |-> "getLastQuarterDataPerYear", data |-> ds, out |-> <<>>, done |-> FALSE] :
                 ds \in Datasets(MaxRecords, Dates, RowValues)}

CallGetLastQuarterDataPerYear ==
  /\ call.fn = "getLastQuarterDataPerYear"
  /\ ~call.done
  /\ \E out \in GetLastQuarterDataPerYear(call.data) :
        call' = [call EXCEPT !.out = out, !.done = TRUE]
  /\ UNCHANGED tabVars

BucketNext == CallGetLastQuarterDataPerYear

SpecBucket == BucketInit /\ [][BucketNext]_vars

AllOk(ds) == \A i \in 1..Len(ds) : ds[i].TableDate.k = "ok"

\* C1: for an input of records with valid dates, the result holds exactly one
\* record for each year of the input and nothing else, and the record of a
\* year is the one that comes last in input order among that year's records.
C1_LastOfEachYear ==
  (call.done /\ AllOk(call.data)) =>
    LET in == call.data
        out == call.out
        lastOf(y) == CHOOSE i \in 1..Len(in) :
                       /\ in[i].TableDate.y = y
                       /\ \A j \in 1..Len(in) : in[j].TableDate.y = y => j <= i
    IN /\ \A i \in 1..Len(in) :
            Cardinality({x \in 1..Len(out) : out[x].TableDate.y = in[i].TableDate.y}) = 1
       /\ \A x \in 1..Len(out) : \E i \in 1..Len(in) : out[x] = in[i]
       /\ \A x \in 1..Len(out) : out[x] = in[lastOf(out[x].TableDate.y)]

\* a year with two records whose last one in input order is the earlier date
C1_Witness ==
  /\ call.done
  /\ AllOk(call.data)
  /\ \E i, j \in 1..Len(call.data) :
        /\ i < j
        /\ call.data[i].TableDate.y = call.data[j].TableDate.y
        /\ call.data[i].TableDate.m > call.data[j].TableDate.m
        /\ \E x \in 1..Len(call.out) : call.out[x] = call.data[j]

\* C2: for an input of records with valid dates, in whatever order, the
\* result is sorted ascending by TableDate.
C2_SortedByDate ==
  (call.done /\ AllOk(call.data)) =>
    \A x, z \in 1..Len(call.out) :
      x < z => call.out[x].TableDate.y * 12 + call.out[x].TableDate.m
                 <= call.out[z].TableDate.y * 12 + call.out[z].TableDate.m

\* an input whose years arrive in descending order, both of them returned
C2_Witness ==
  /\ call.done
  /\ AllOk(call.data)
  /\ Len(call.out) >= 2
  /\ \E i, j \in 1..Len(call.data) :
        i < j /\ call.data[i].TableDate.y > call.data[j].TableDate.y

\* ------------------------------------------------ the tab component (React)
\* React renders the component after every state or prop change and runs,
\* after the render is committed, the effects whose dependencies changed
\* since the previous render.  State updates made in one handler (an event
\* handler, an effect, the continuation of an await) are applied together
\* in one render.  Every action below is a handler followed by the render
\* it causes; events and responses are handled once the effects have run.

TabDates == {OkDate(2021, 2), OkDate(2021, 11), OkDate(2022, 2)}
TabDatasets == Datasets(MaxTabRecords, TabDates, {10})

\* the responses of the API, each with the label lists the render computes
\* from it
TabResponses ==
  {[data |-> ds, yearOptions |-> YearOptions(ds), quarterOptions |-> QuarterOptions(ds)] :
     ds \in TabDatasets}

ActiveOptions == IF isAnnual THEN yearOptions ELSE quarterOptions
ActiveRange == IF isAnnual THEN yearRange ELSE quarterRange
Idle == due = {}
IsNarrow == ActiveRange # <<0, Len(ActiveOptions) - 1>> /\ Len(ActiveOptions) > 1

FetchError(t) ==
  CASE t = "metrics" -> "Failed to fetch metrics data"
    [] t = "comparison" -> "Failed to fetch comparison data"
    [] OTHER -> "Failed to fetch ratio data"

\* dependencies on the label lists themselves
DepsOnLabels ==
  [company |-> selectedCompany, metric |-> selectedMetric, annual |-> isAnnual,
   years |-> yearOptions, quarters |-> quarterOptions]

\* the dependency values of a render
Deps ==
  [company |-> selectedCompany, metric |-> selectedMetric, annual |-> isAnnual,
   years |-> Len(yearOptions), quarters |-> Len(quarterOptions)]

\* the effects that run after a render with dependencies now, the previous
\* render having had dependencies before
DueEffects(t, before, now) ==
  LET fetchDeps(x) == IF t = "metrics" THEN <<x.company, x.metric, x.annual>>
                      ELSE <<x.company, x.annual>>
      yearDeps(x) == IF t = "ratio" THEN <<x.annual, x.years, x.quarters>>
                     ELSE <<x.annual, x.years>>
      quarterDeps(x) == IF t = "ratio" THEN <<x.annual, x.years, x.quarters>>
                        ELSE <<x.annual, x.quarters>>
  IN (IF fetchDeps(before) # fetchDeps(now) THEN {"fetch"} ELSE {})
       \cup (IF yearDeps(before) # yearDeps(now) THEN {"year"} ELSE {})
       \cup (IF quarterDeps(before) # quarterDeps(now) THEN {"quarter"} ELSE {})

\* what the component returns: the spinner, the error box, or the controls
\* and the chart
ViewKind(isLoading, err) ==
  IF isLoading THEN "spinner" ELSE IF err # NoError THEN "error" ELSE "chart"

\* the data prop handed to the chart: MetricsTab buckets it in annual view
DisplayData(t, ds, annual) ==
  IF t = "metrics" /\ annual THEN GetLastQuarterDataPerYear(ds) ELSE {ds}

\* the render that follows a handler: it reads the new state, and the
\* effects whose dependencies differ from the previous render's become due
Render ==
  /\ displayData' \in DisplayData(tab', data', isAnnual')
  /\ due' = DueEffects(tab', Deps, Deps')

\* a reset that leaves the range on the first label
ResetYearRangeToFirst(t, n) == <<0, 0>>

\* setYearRange([0, Math.max(0, yearOptions.length - 1)]); RatioTab omits
\* the Math.max
ResetYearRange(t, n) == IF t = "ratio" THEN <<0, n - 1>> ELSE <<0, Max(0, n - 1)>>

\* setQuarterRange([0, Math.max(0, quarterOptions.length - 1)])
ResetQuarterRange(n) == <<0, Max(0, n - 1)>>

\* fetchMetricsData / fetchData return at once without a company (or, in
\* MetricsTab, without a metric)
FetchGuard == selectedCompany # "" /\ (tab = "metrics" => selectedMetric # "")

\* the effects that are due: the fetch (setLoading(true), setError(null),
\* the request) and the range resets, and the render of the new state
RunEffects ==
  /\ due # {}
  /\ IF "fetch" \in due /\ FetchGuard
       THEN /\ loading' = TRUE
            /\ error' = NoError
            /\ issued' = issued + 1
            /\ inflight' = inflight \cup {issued + 1}
            /\ origin' = [origin EXCEPT !.error = 0]
       ELSE UNCHANGED <<loading, error, issued, inflight, origin>>
  /\ yearRange' = IF "year" \in due THEN ResetYearRange(tab, Len(yearOptions))
                  ELSE yearRange
  /\ quarterRange' = IF "quarter" \in due THEN ResetQuarterRange(Len(quarterOptions))
                     ELSE quarterRange
  /\ UNCHANGED <<tab, selectedCompany, selectedMetric, data, yearOptions, quarterOptions,
                 isAnnual, lastChange, narrowed, arrival, call>>
  /\ Render

\* the response of a fetch: setData(response.data), then setLoading(false)
FetchResolve ==
  /\ Idle
  /\ loading' = FALSE
  /\ UNCHANGED <<tab, selectedCompany, selectedMetric, isAnnual, error, yearRange,
                 quarterRange, issued, call>>
  /\ \E id \in inflight, response \in TabResponses :
        /\ inflight' = inflight \ {id}
        /\ origin' = [origin EXCEPT !.data = id]
        /\ data' = response.data
        /\ arrival' = IF /\ response.data # data
                          /\ Len(response.yearOptions) = Len(yearOptions)
                          /\ Len(response.quarterOptions) = Len(quarterOptions)
                       THEN "same" ELSE "other"
        /\ yearOptions' = response.yearOptions
        /\ quarterOptions' = response.quarterOptions
        /\ lastChange' = IF Len(ActiveOptions') # Len(ActiveOptions)
                          THEN "labels" ELSE lastChange
        /\ narrowed' = IF Len(ActiveOptions') # Len(ActiveOptions)
                        THEN IsNarrow ELSE narrowed
        /\ Render

\* the failure of a fetch: setError(...), then setLoading(false)
FetchReject ==
  /\ Idle
  /\ \E id \in inflight :
        /\ inflight' = inflight \ {id}
        /\ origin' = [origin EXCEPT !.error = id]
  /\ error' = FetchError(tab)
  /\ loading' = FALSE
  /\ UNCHANGED <<tab, selectedCompany, selectedMetric, data, yearOptions, quarterOptions,
                 isAnnual, yearRange, quarterRange, issued, lastChange, narrowed, arrival,
                 call>>
  /\ Render

\* the Annual View switch: setIsAnnual(e.target.checked)
ToggleAnnual ==
  /\ Idle
  /\ ViewKind(loading, error) = "chart"
  /\ issued < MaxRequests
  /\ isAnnual' = ~isAnnual
  /\ arrival' = "none"
  /\ lastChange' = "toggle"
  /\ narrowed' = IsNarrow
  /\ UNCHANGED <<tab, selectedCompany, selectedMetric, data, yearOptions, quarterOptions,
                 loading, error, yearRange, quarterRange, inflight, issued, call,
                 origin>>
  /\ Render

\* the positions a TimeRangeSlider over n options can report: min = 0,
\* max = n - 1, step 1, disableSwap
SliderValues(n) == {r \in (0..(n - 1)) \X (0..(n - 1)) : r[1] <= r[2]}

\* the year slider, shown when isAnnual && yearOptions.length > 1
SlideYear ==
  /\ Idle
  /\ ViewKind(loading, error) = "chart"
  /\ isAnnual
  /\ Len(yearOptions) > 1
  /\ \E r \in SliderValues(Len(yearOptions)) : yearRange' = r
  /\ arrival' = "none"
  /\ lastChange' = "slider"
  /\ narrowed' = FALSE
  /\ UNCHANGED <<tab, selectedCompany, selectedMetric, data, yearOptions, quarterOptions,
                 isAnnual, loading, error, quarterRange, inflight, issued, call,
                 origin>>
  /\ Render

\* the quarter slider, shown when !isAnnual && quarterOptions.length > 1
SlideQuarter ==
  /\ Idle
  /\ ViewKind(loading, error) = "chart"
  /\ ~isAnnual
  /\ Len(quarterOptions) > 1
  /\ \E r \in SliderValues(Len(quarterOptions)) : quarterRange' = r
  /\ arrival' = "none"
  /\ lastChange' = "slider"
  /\ narrowed' = FALSE
  /\ UNCHANGED <<tab, selectedCompany, selectedMetric, data, yearOptions, quarterOptions,
                 isAnnual, loading, error, yearRange, inflight, issued, call,
                 origin>>
  /\ Render

\* the company Select of the Header: onCompanyChange(e.target.value)
ChangeCompany ==
  /\ Idle
  /\ issued < MaxRequests
  /\ \E c \in Companies \ {selectedCompany} : selectedCompany' = c
  /\ UNCHANGED <<tab, selectedMetric, data, yearOptions, quarterOptions, isAnnual, loading,
                 error, yearRange, quarterRange, inflight, issued, lastChange, narrowed,
                 call,
                 origin, arrival>>
  /\ Render

\* the metric sub-tabs, shown with the metrics tab: onSubTabChange(newValue)
ChangeMetric ==
  /\ Idle
  /\ tab = "metrics"
  /\ issued < MaxRequests
  /\ \E m \in MetricNames \ {selectedMetric} : selectedMetric' = m
  /\ UNCHANGED <<tab, selectedCompany, data, yearOptions, quarterOptions, isAnnual, loading,
                 error, yearRange, quarterRange, inflight, issued, lastChange, narrowed,
                 call,
                 origin, arrival>>
  /\ Render

Init == Mounted(Tabs, Companies, MetricNames) /\ call = NoCall

Next ==
  \/ RunEffects
  \/ FetchResolve
  \/ FetchReject
  \/ ToggleAnnual
  \/ SlideYear
  \/ SlideQuarter
  \/ ChangeCompany
  \/ ChangeMetric

Spec == Init /\ [][Next]_vars

\* C4: in every render of MetricsTab that shows the chart, the range of the
\* active granularity lies within the label list of that render when the
\* list is not empty: 0 <= start <= end < length(labels).
C4_RangeInBounds ==
  (tab = "metrics" /\ ViewKind(loading, error) = "chart" /\ Len(ActiveOptions) > 0) =>
    /\ 0 <= ActiveRange[1]
    /\ ActiveRange[1] <= ActiveRange[2]
    /\ ActiveRange[2] < Len(ActiveOptions)

\* the same once the effects of the render have run
C4_RangeInBoundsWhenIdle ==
  (Idle /\ Len(ActiveOptions) > 0) =>
    /\ 0 <= ActiveRange[1]
    /\ ActiveRange[1] <= ActiveRange[2]
    /\ ActiveRange[2] < Len(ActiveOptions)

\* the range the reset effects leave for the active granularity
ResetSpan ==
  IF Len(ActiveOptions) > 0 THEN <<0, Len(ActiveOptions) - 1>>
  ELSE IF tab = "ratio" /\ isAnnual THEN <<0, -1>>
  ELSE <<0, 0>>

\* C5: after a toggle of the granularity or a change of the number of
\* labels, once the effects have run and before a later slider move, the
\* active range is the full span [0, length(labels) - 1] of a non-empty
\* label list; for an empty list it is [0, 0] (RatioTab's year range:
\* [0, -1]).
C5_ResetToFullSpan ==
  (Idle /\ lastChange \in {"toggle", "labels"}) => ActiveRange = ResetSpan

\* C5 as stated: the active range is [0, length(labels) - 1] for every
\* label list, the empty one included
C5_FullSpanAlways ==
  (Idle /\ lastChange \in {"toggle", "labels"}) =>
    ActiveRange = <<0, Len(ActiveOptions) - 1>>

\* a toggle made while the user had narrowed the range, the effects run,
\* several labels to span
C5_Witness ==
  /\ Idle
  /\ lastChange = "toggle"
  /\ narrowed
  /\ Len(ActiveOptions) >= 2
  /\ ActiveRange = <<0, Len(ActiveOptions) - 1>>

\* C28: a new dataset that arrives with the same number of labels as the
\* previous one, without a granularity toggle, leaves the year range and the
\* quarter range unchanged: no reset effect is due after it, and the ranges
\* stay as they were until the next toggle, slider move or response.
C28_SameLabelCountKeepsRanges ==
  [][/\ (/\ origin'.data # origin.data
          /\ data' # data
          /\ Len(yearOptions') = Len(yearOptions)
          /\ Len(quarterOptions') = Len(quarterOptions))
         => (/\ yearRange' = yearRange
             /\ quarterRange' = quarterRange
             /\ due' \cap {"year", "quarter"} = {})
     /\ (arrival = "same" /\ arrival' = "same")
         => (yearRange' = yearRange /\ quarterRange' = quarterRange)]_vars

\* a range narrower than the label list, untouched since a response brought
\* a different dataset with as many labels, and no effect left to run
C28_Witness ==
  /\ arrival = "same"
  /\ Idle
  /\ inflight = {}
  /\ ViewKind(loading, error) = "chart"
  /\ IsNarrow

\* every fetch has completed and no effect is waiting to run
AllArrived == inflight = {} /\ Idle /\ issued > 0

\* data, error and loading are those of the request issued last: its
\* response is in data and no failure is shown, or its failure is shown
OfLatestRequest ==
  /\ ~loading
  /\ \/ origin.data = issued /\ origin.error = 0 /\ error = NoError
     \/ origin.error = issued /\ error # NoError

\* C24: when several fetches were in flight at once, then after all
\* responses have arrived, in whatever order, the dataset, the error
\* message and the loading flag are those of the request issued last; the
\* response of an earlier request never overwrites that of a later one.
C24_LatestRequestOnly == AllArrived => OfLatestRequest

\* it is so as long as no two fetches are in flight at once
C24_OneFetchAtATime == [](Cardinality(inflight) <= 1) => [](AllArrived => OfLatestRequest)

\* and the spinner is gone once all responses have arrived
C24_NotLoadingWhenAllArrived == AllArrived => ~loading

\* C15: whenever the label list of a granularity is empty, its range is
\* [0, 0] once the reset effects have run, in every tab.
C15_EmptyLabelsRangeZero ==
  Idle =>
    /\ Len(yearOptions) = 0 => yearRange = <<0, 0>>
    /\ Len(quarterOptions) = 0 => quarterRange = <<0, 0>>

\* the same for the quarter range of every tab and the year range of the
\* Metrics and Comparison tabs; RatioTab's year range is [0, -1]
C15_ExceptRatioYearRange ==
  Idle =>
    /\ Len(yearOptions) = 0 => yearRange = (IF tab = "ratio" THEN <<0, -1>> ELSE <<0, 0>>)
    /\ Len(quarterOptions) = 0 => quarterRange = <<0, 0>>

\* ----------------------------------------- specification: the chart series
\* The series a chart shows for one render of its tab: the tab computes the
\* label lists from its data, hands the chart the data (MetricsTab: bucketed
\* in annual view) with the lists and a range, and the chart filters.
LabelsOf(ds, annual) == IF annual THEN YearOptions(ds) ELSE QuarterOptions(ds)

\* the ranges a tab can hold over n labels once its effects have run
RangesOver(n) == IF n = 0 THEN {<<0, 0>>} ELSE SliderValues(n)

\* the ranges with start > end that a caller other than the slider can hand
\* the chart over n labels, RatioTab's [0, -1] among them
SwappedRanges(n) == {r \in (0..n) \X ((-1)..(n - 1)) : r[1] > r[2]}

ChartSeries(t, ds, annual, range) ==
  {[shown |-> dd,
    out |-> FilteredData(dd, annual, range, YearOptions(ds), range, QuarterOptions(ds))] :
     dd \in DisplayData(t, ds, annual)}

SeriesInit ==
  /\ Parked
  /\ \E t \in {"metrics", "comparison"}, ds \in Datasets(MaxRecords, Dates, {10}),
        a \in BOOLEAN :
        LET n == Len(LabelsOf(ds, a))
        IN \E r \in RangesOver(n) \cup SwappedRanges(n) :
             call = [fn |-> "series", tab |-> t, data |-> ds, annual |-> a, range |-> r,
                     shown |-> <<>>, out |-> <<>>, done |-> FALSE]

CallChartSeries ==
  /\ call.fn = "series"
  /\ ~call.done
  /\ \E res \in ChartSeries(call.tab, call.data, call.annual, call.range) :
        call' = [call EXCEPT !.shown = res.shown, !.out = res.out, !.done = TRUE]
  /\ UNCHANGED tabVars

SeriesNext == CallChartSeries

SpecSeries == SeriesInit /\ [][SeriesNext]_vars

\* the period key of a record: the year, or the quarter label
PeriodKey(r, annual) ==
  IF annual THEN GetFullYear(r.TableDate) ELSE QuarterLabel(r.TableDate)

\* C3: for every label list the tab builds and every range within it, the
\* chart retains exactly the valid records it was handed whose period key is
\* one of labels[start..end], and every label of labels[start..end] is the
\* key of at least one retained record.
C3_RangeFilterExact ==
  (call.fn = "series" /\ call.done) =>
    LET labels == LabelsOf(call.data, call.annual)
        start == call.range[1]
        end == call.range[2]
        selected == {labels[i + 1] : i \in start..end}
        keep(r) == IsValidRecord(r) /\ PeriodKey(r, call.annual) \in selected
    IN (0 <= start /\ start <= end /\ end < Len(labels)) =>
         /\ call.out = SelectSeq(call.shown, keep)
         /\ \A l \in selected :
              \E x \in 1..Len(call.out) : PeriodKey(call.out[x], call.annual) = l

\* the retained records are the valid records with a selected key, whatever
\* the dates; every selected label has a record when all dates are valid
C3_OnValidDates ==
  (call.fn = "series" /\ call.done) =>
    LET labels == LabelsOf(call.data, call.annual)
        start == call.range[1]
        end == call.range[2]
        selected == {labels[i + 1] : i \in start..end}
        keep(r) == IsValidRecord(r) /\ PeriodKey(r, call.annual) \in selected
    IN (0 <= start /\ start <= end /\ end < Len(labels)) =>
         /\ call.out = SelectSeq(call.shown, keep)
         /\ AllOk(call.data) =>
              \A l \in selected :
                \E x \in 1..Len(call.out) : PeriodKey(call.out[x], call.annual) = l

\* the series of the Metrics tab with the full range selected
FullRange(ds, annual) == <<0, Max(0, Len(LabelsOf(ds, annual)) - 1)>>

\* C6: for a dataset with invalid records, the series the Metrics tab shows
\* is the series it shows for the dataset without them, in content and
\* order (the full range selected in both).
C6_InvalidRecordsIgnored ==
  (call.fn = "series" /\ call.done /\ call.tab = "metrics"
     /\ call.range = FullRange(call.data, call.annual)) =>
    LET clean == ValidData(call.data)
    IN \E res \in ChartSeries("metrics", clean, call.annual, FullRange(clean, call.annual)) :
         call.out = res.out

\* the same in quarterly view, where the data is not bucketed
C6_QuarterlyViewOnly ==
  (call.fn = "series" /\ call.done /\ call.tab = "metrics" /\ ~call.annual
     /\ call.range = FullRange(call.data, call.annual)) =>
    LET clean == ValidData(call.data)
    IN \E res \in ChartSeries("metrics", clean, call.annual, FullRange(clean, call.annual)) :
         call.out = res.out

\* C11: when the label list of the active granularity is empty, or the range
\* has start > end, the chart's filtered series is empty.
C11_DegenerateRangeSelectsNothing ==
  (call.fn = "series" /\ call.done) =>
    ((Len(LabelsOf(call.data, call.annual)) = 0 \/ call.range[1] > call.range[2])
       => call.out = <<>>)

\* a range with start > end over two labels or more, handed to the chart
\* with records of valid date, none of them retained
C11_Witness ==
  /\ call.fn = "series"
  /\ call.done
  /\ call.range[1] > call.range[2] + 1
  /\ Len(LabelsOf(call.data, call.annual)) >= 2
  /\ Len(ValidData(call.shown)) >= 2
  /\ call.out = <<>>

\* C26: in the Metrics tab's annual view, for every dataset of records with
\* valid dates and every range with 0 <= start <= end < length(yearOptions),
\* the chart displays exactly end - start + 1 points, one for each selected
\* year, in ascending year order.
C26_OnePointPerSelectedYear ==
  (call.fn = "series" /\ call.done /\ call.tab = "metrics" /\ call.annual
     /\ AllOk(call.data)) =>
    LET labels == YearOptions(call.data)
        start == call.range[1]
        end == call.range[2]
    IN (0 <= start /\ start <= end /\ end < Len(labels)) =>
         /\ Len(call.out) = end - start + 1
         /\ \A x \in 1..Len(call.out) :
              GetFullYear(call.out[x].TableDate) = labels[start + x]
         /\ \A x, z \in 1..Len(call.out) :
              x < z => call.out[x].TableDate.y < call.out[z].TableDate.y

\* three records of two years, the later year first, and both years
\* selected: two points
C26_Witness ==
  /\ call.fn = "series"
  /\ call.done
  /\ call.tab = "metrics"
  /\ call.annual
  /\ AllOk(call.data)
  /\ Len(call.data) = 3
  /\ call.data[1].TableDate.y > call.data[3].TableDate.y
  /\ call.range = <<0, 1>>
  /\ Len(call.out) = 2

\* -------------------------------------- specification: detectAnomalies
\* the series handed to detectAnomalies and to AIInsightsPanel: records in
\* which the metric is a number or missing
SeriesOf(n, dates, values) ==
  UNION {{[i \in 1..l |-> [TableDate |-> f[i][1], v |-> f[i][2], row |-> i]] :
            f \in [1..l -> dates \X values]} : l \in 0..n}

AnomalyInit ==
  /\ Parked
  /\ call \in {[fn |-> "detectAnomalies", data |-> ds, threshold |-> Fin(t),
                out |-> <<>>, done |-> FALSE] :
                 ds \in SeriesOf(MaxRecords, {OkDate(2021, 2)},
                                 {Fin(x) : x \in AnomalyValues} \cup {Undef}),
                 t \in 1..MaxThreshold}

CallDetectAnomalies ==
  /\ call.fn = "detectAnomalies"
  /\ ~call.done
  /\ call' = [call EXCEPT !.out = DetectAnomalies(call.data, call.threshold), !.done = TRUE]
  /\ UNCHANGED tabVars

AnomalyNext == CallDetectAnomalies

SpecAnomaly == AnomalyInit /\ [][AnomalyNext]_vars

\* C7: detectAnomalies reports index i >= 1 if and only if both values of
\* the pair are non-zero and present and curr / prev > t (a spike) or
\* curr / prev < 1 / t (a drop), both strict; at most one report per index,
\* in index order.
C7_AnomalyIffStrictRatio ==
  (call.fn = "detectAnomalies" /\ call.done) =>
    LET in == call.data
        out == call.out
        t == call.threshold.n
        present(i) == in[i].v.k = "fin" /\ in[i].v.n # 0
        p(i) == in[i].v.n
        c(i) == in[i + 1].v.n
        \* curr / prev > t and curr / prev < 1 / t, cleared of the division
        above(i) == IF p(i) > 0 THEN c(i) > t * p(i) ELSE c(i) < t * p(i)
        below(i) == IF p(i) > 0 THEN t * c(i) < p(i) ELSE t * c(i) > p(i)
        pair(i) == present(i) /\ present(i + 1)
        reports(i, type) == {x \in 1..Len(out) : out[x].index = i /\ out[x].type = type}
    IN /\ \A i \in 1..(Len(in) - 1) :
            /\ reports(i, "spike") # {} <=> (pair(i) /\ above(i))
            /\ reports(i, "drop") # {} <=> (pair(i) /\ ~above(i) /\ below(i))
            /\ Cardinality({x \in 1..Len(out) : out[x].index = i}) <= 1
       /\ \A x \in 1..Len(out) : out[x].index \in 1..(Len(in) - 1)
       /\ \A x, z \in 1..Len(out) : x < z => out[x].index < out[z].index

\* threshold 2, a rise to exactly twice the value and a fall to 0, neither
\* of them reported
C7_Witness ==
  /\ call.fn = "detectAnomalies"
  /\ call.done
  /\ call.threshold = Fin(2)
  /\ \E i, j \in 1..(Len(call.data) - 1) :
        /\ call.data[i].v.k = "fin"
        /\ call.data[i].v.n > 0
        /\ call.data[i + 1].v = Fin(2 * call.data[i].v.n)
        /\ Truthy(call.data[j].v)
        /\ call.data[j + 1].v = Fin(0)
        /\ \A x \in 1..Len(call.out) : call.out[x].index \notin {i, j}

\* in every reported pair a spike is a rise and a drop is a fall
KindAgreesWithDirection(from) ==
  \A x \in 1..Len(call.out) :
    LET prev == call.data[call.out[x].index].v.n
        curr == call.data[call.out[x].index + 1].v.n
    IN prev \in from =>
         /\ call.out[x].type = "spike" => curr > prev
         /\ call.out[x].type = "drop" => curr < prev

\* C25: the kind of an anomaly agrees with the direction of the change for
\* every pair of non-zero values, negative ones included: a spike at index
\* i has data[i] > data[i - 1] and a drop has data[i] < data[i - 1].
C25_KindAgreesWithDirection ==
  (call.fn = "detectAnomalies" /\ call.done) => KindAgreesWithDirection(AnomalyValues)

\* it is so for the pairs whose first value is positive
C25_AfterPositiveValue ==
  (call.fn = "detectAnomalies" /\ call.done) =>
    KindAgreesWithDirection({v \in AnomalyValues : v > 0})

\* ---------------------------------------- specification: AIInsightsPanel
InsightInit ==
  /\ Parked
  /\ \/ call \in {[fn |-> "AIInsightsPanel", data |-> ds, metric |-> metric, annual |-> a,
                   out |-> <<>>, items |-> <<>>, done |-> FALSE] :
                    ds \in SeriesOf(MaxSeries, {OkDate(2021, 2)},
                                    {Fin(x) : x \in InsightValues} \cup {Undef})
                             \cup SeriesOf(MaxSeries, {OkDate(2021, 2), BadDate}, {Fin(30)}),
                    metric \in InsightMetrics,
                    a \in BOOLEAN}
     \/ call \in {[fn |-> "AIInsightsPanel", data |-> ds, metric |-> metric, annual |-> a,
                   out |-> <<>>, items |-> <<>>, done |-> FALSE] :
                    ds \in SeriesOf(MaxThresholdSeries, {OkDate(2021, 2)},
                                    {Fin(x) : x \in ThresholdValues}),
                    metric \in InsightMetrics \cup KeywordMetrics,
                    a \in BOOLEAN}

CallAIInsightsPanel ==
  /\ call.fn = "AIInsightsPanel"
  /\ ~call.done
  /\ LET insights == GenerateInsights(call.data, call.metric, call.annual)
     IN call' = [call EXCEPT !.out = insights, !.items = PanelItems(insights), !.done = TRUE]
  /\ UNCHANGED tabVars

InsightNext == CallAIInsightsPanel

SpecInsights == InsightInit /\ [][InsightNext]_vars

InsightValuesOf(ds) == LET valid == ValidData(ds) IN [i \in 1..Len(valid) |-> valid[i].v]

\* the category of an insight, read off its text
CategoryOf(insight) ==
  CASE insight.head \in {"Strong growth", "Significant decline"} -> 1
    [] insight.head \in {"Upward trend", "Downward trend"} -> 2
    [] insight.head = "High volatility" -> 3
    [] insight.head = "Strong annual growth" -> 4
    [] insight.head \in {"Revenue growth", "Profit growth", "Margin improvement"} -> 5
    [] OTHER -> 0

\* C8: when the second-to-last value of the series is 0, generateInsights
\* emits no percent-change insight and no keyword insight, and no insight
\* text contains Infinity or NaN.
C8_NoPercentChangeOnZero ==
  (call.fn = "AIInsightsPanel" /\ call.done) =>
    LET values == InsightValuesOf(call.data)
        n == Len(values)
    IN (n >= 2 /\ values[n - 1] = Fin(0)) =>
         \A x \in 1..Len(call.out) :
           /\ CategoryOf(call.out[x]) \notin {1, 5}
           /\ ~StrIncludes(call.out[x].number, StrInfinity)
           /\ ~StrIncludes(call.out[x].number, StrNaN)

\* no insight text contains NaN, whatever the series
C8_NeverNaNText ==
  (call.fn = "AIInsightsPanel" /\ call.done) =>
    \A x \in 1..Len(call.out) : ~StrIncludes(call.out[x].number, StrNaN)

\* C9: the insights come in the order percent change, trend, volatility,
\* annual growth, metric keyword, at most one of each, so at most 5.
C9_FixedCategoryOrder ==
  (call.fn = "AIInsightsPanel" /\ call.done) =>
    /\ \A x \in 1..Len(call.out) : CategoryOf(call.out[x]) \in 1..5
    /\ \A x, z \in 1..Len(call.out) :
         x < z => CategoryOf(call.out[x]) < CategoryOf(call.out[z])
    /\ Len(call.out) <= 5

\* a percent-change insight and a volatility warning in one list
C9_Witness ==
  /\ call.fn = "AIInsightsPanel"
  /\ call.done
  /\ \E x, z \in 1..Len(call.out) :
        /\ call.out[x].head = "Strong growth"
        /\ call.out[z].head = "High volatility"
  /\ Len(call.out) = 5

\* C10: with fewer than 2 records with a valid date the insight list is
\* empty and the panel shows exactly the placeholder; the placeholder is
\* shown if and only if the insight list is empty.
C10_PlaceholderIffEmpty ==
  (call.fn = "AIInsightsPanel" /\ call.done) =>
    /\ Len(ValidData(call.data)) < 2 => (call.out = <<>> /\ call.items = <<Placeholder>>)
    /\ (\E x \in 1..Len(call.items) : call.items[x] = Placeholder) <=> call.out = <<>>
    /\ Cardinality({x \in 1..Len(call.items) : call.items[x] = Placeholder}) <= 1

\* one record with a valid date next to one without, and the placeholder
C10_Witness ==
  /\ call.fn = "AIInsightsPanel"
  /\ call.done
  /\ Len(call.data) = 2
  /\ Len(ValidData(call.data)) = 1
  /\ call.items = <<Placeholder>>

\* ------------------------------------- specification: the chart pipeline
\* One render of MetricsTab and MetricsChart on a dataset: the label lists,
\* the annual bucketing, the validity and range filters, detectAnomalies
\* with its tooltip map, and generateInsights; then a second render of the
\* same props.

\* new Date(td).toISOString() throws a RangeError on an Invalid Date
ToISOStringThrows(td) == IsNaN(GetTime(td))

\* whether detectAnomalies(records, metric) throws: the date of the later
\* record of a pair is formatted when both values are truthy
DetectAnomaliesThrows(records) ==
  \E k \in 2..Len(records) :
    /\ Truthy(records[k - 1].v)
    /\ Truthy(records[k].v)
    /\ ToISOStringThrows(records[k].TableDate)

\* a map keyed by the position of the anomaly in the list
AnomalyMapByPosition(anomalies) == [i \in 0..(Len(anomalies) - 1) |-> anomalies[i + 1]]

\* anomalies.reduce((acc, anomaly) => { acc[anomaly.index] = anomaly; ... }, {})
AnomalyMap(anomalies) ==
  [i \in {anomalies[x].index : x \in 1..Len(anomalies)} |->
     anomalies[CHOOSE x \in 1..Len(anomalies) :
                 /\ anomalies[x].index = i
                 /\ \A z \in (x + 1)..Len(anomalies) : anomalies[z].index # i]]

\* tooltip.callbacks.afterBody for the point at dataIndex idx: the anomaly
\* of the map under idx, if any
AfterBody(anomalyMap, idx) ==
  IF idx \in DOMAIN anomalyMap THEN <<anomalyMap[idx]>> ELSE <<>>

\* a render that sorts the array it was handed
DataSortedInPlace(records) == SortBy(records, DateComparator)

\* the data array after a render: filter, map, Array.from and slice return
\* new arrays, and sort is applied to such a copy only
DataAfterRender(records) == records

\* what one render computes; a throw leaves no anomalies and no panel
ChartPipeline(ds, annual, range, metric) ==
  {LET filteredData == FilteredData(dd, annual, range, YearOptions(ds), range, QuarterOptions(ds))
       threw == DetectAnomaliesThrows(filteredData)
       anomalies == IF threw THEN <<>> ELSE DetectAnomalies(filteredData, Fin(2))
       anomalyMap == AnomalyMap(anomalies)
   IN [shown |-> dd, out |-> filteredData, threw |-> threw, anomalies |-> anomalies,
       tooltips |-> [x \in 1..Len(filteredData) |-> AfterBody(anomalyMap, x - 1)],
       insights |-> IF threw THEN <<>> ELSE GenerateInsights(filteredData, metric, annual)] :
     dd \in DisplayData("metrics", ds, annual)}

\* the records of the datasets: two periods with a positive, a negative, a
\* zero and a missing value, and a record with an unparseable date
PipelineRecords ==
  {<<OkDate(2021, 11), Fin(10)>>, <<OkDate(2021, 11), Fin(-30)>>,
   <<OkDate(2022, 2), Fin(30)>>, <<OkDate(2022, 2), Fin(-30)>>,
   <<OkDate(2022, 2), Fin(0)>>, <<OkDate(2022, 2), Undef>>,
   <<BadDate, Fin(10)>>}
PipelineDatasets ==
  UNION {{[i \in 1..l |-> [TableDate |-> f[i][1], v |-> f[i][2], row |-> i]] :
            f \in [1..l -> PipelineRecords]} : l \in 0..MaxPipeline}
NoRun == [shown |-> <<>>, out |-> <<>>, threw |-> FALSE, anomalies |-> <<>>,
          tooltips |-> <<>>, insights |-> <<>>]

PipelineInit ==
  /\ Parked
  /\ \E ds \in PipelineDatasets, a \in BOOLEAN :
        \E r \in RangesOver(Len(LabelsOf(ds, a))) :
          call = [fn |-> "pipeline", data |-> ds, given |-> ds, annual |-> a, range |-> r,
                  metric |-> "Revenue", runs |-> 0, first |-> NoRun, last |-> NoRun]

\* a render; the engine sorts the same array the same way every time
RunChartPipeline ==
  /\ call.fn = "pipeline"
  /\ call.runs < 2
  /\ \E res \in ChartPipeline(call.data, call.annual, call.range, call.metric) :
        /\ (call.runs = 1 /\ call.data = call.given) => res.shown = call.first.shown
        /\ call' = [call EXCEPT !.runs = call.runs + 1,
                                 !.data = DataAfterRender(call.data),
                                 !.first = IF call.runs = 0 THEN res ELSE call.first,
                                 !.last = res]
  /\ UNCHANGED tabVars

PipelineNext == RunChartPipeline

SpecPipeline == PipelineInit /\ [][PipelineNext]_vars

\* C12: for every dataset (valid and invalid dates, no, one or more records,
\* positive, zero, negative and missing values) and every range the render
\* completes without throwing, and shows no more than the records it was
\* given.
C12_PipelineNeverThrows ==
  (call.fn = "pipeline" /\ call.runs >= 1) =>
    /\ ~call.last.threw
    /\ Len(call.last.out) <= Len(call.given)
    /\ \A x \in 1..Len(call.last.out) :
         \E i \in 1..Len(call.given) : call.last.out[x] = call.given[i]

\* a record with an unparseable date and a truthy value behind a record
\* with a truthy value, and a render that did not throw
C12_Witness ==
  /\ call.fn = "pipeline"
  /\ call.runs >= 1
  /\ ~call.last.threw
  /\ \E i \in 2..Len(call.given) :
        /\ call.given[i].TableDate = BadDate
        /\ Truthy(call.given[i].v)
        /\ Truthy(call.given[i - 1].v)

Emits(insights, head) == \E x \in 1..Len(insights) : insights[x].head = head

\* the last four values are numbers, the first three of them not 0, and the
\* mean of the three fractional growths between them is above 1/10
MeanGrowthAboveTenth(values) ==
  LET n == Len(values)
      v(k) == values[n - 4 + k].n
      den == v(1) * v(2) * v(3)
      num == (v(2) - v(1)) * v(2) * v(3) + (v(3) - v(2)) * v(1) * v(3)
               + (v(4) - v(3)) * v(1) * v(2)
  IN IF den > 0 THEN 10 * num > 3 * den ELSE 10 * num < 3 * den

FourNumbers(values) ==
  /\ Len(values) >= 4
  /\ \A k \in 0..3 : values[Len(values) - k].k = "fin"
  /\ \A k \in 1..3 : values[Len(values) - k].n # 0

\* C14: the 'Strong annual growth' insight is emitted only in annual view
\* and only for a series of at least 4 points, and then exactly when the
\* mean of the 3 fractional growths of the last 4 points is above 0.1.
C14_AnnualGrowthNeedsFourPoints ==
  (call.fn = "AIInsightsPanel" /\ call.done) =>
    LET values == InsightValuesOf(call.data)
    IN /\ Emits(call.out, "Strong annual growth") => (call.annual /\ Len(values) >= 4)
       /\ (call.annual /\ FourNumbers(values)) =>
            (Emits(call.out, "Strong annual growth") <=> MeanGrowthAboveTenth(values))

\* the insight is emitted only in annual view, and for 4 points or more
\* exactly when the mean growth is above 0.1
C14_RateOfFourPoints ==
  (call.fn = "AIInsightsPanel" /\ call.done) =>
    LET values == InsightValuesOf(call.data)
    IN /\ Emits(call.out, "Strong annual growth") => call.annual
       /\ (call.annual /\ FourNumbers(values)) =>
            (Emits(call.out, "Strong annual growth") <=> MeanGrowthAboveTenth(values))

\* ---------------------------------------- specification: the label lists
\* The year and quarter label lists a tab computes from its data in a
\* render (the same expressions in MetricsTab, ComparisonTab and RatioTab).
LabelDates ==
  {OkDate(999, 11), OkDate(1000, 2), OkDate(2021, 2), OkDate(2021, 11), BadDate, NullDate}

LabelsInit ==
  /\ Parked
  /\ \E ds \in Datasets(MaxRecords, LabelDates, {10}) :
        call = [fn |-> "labels", data |-> ds, years |-> <<>>, quarters |-> <<>>,
                done |-> FALSE]

CallLabels ==
  /\ call.fn = "labels"
  /\ ~call.done
  /\ call' = [call EXCEPT !.years = YearOptions(call.data),
                           !.quarters = QuarterOptions(call.data),
                           !.done = TRUE]
  /\ UNCHANGED tabVars

LabelsNext == CallLabels

SpecLabels == LabelsInit /\ [][LabelsNext]_vars

\* the calendar position of a quarter label: that of a record that has it
QuarterOf(ds, label) ==
  LET i == CHOOSE j \in 1..Len(ds) : QuarterLabel(ds[j].TableDate) = label
  IN ds[i].TableDate.y * 4 + (ds[i].TableDate.m \div 3)

\* C16: for a dataset of records with valid dates, the year list and the
\* quarter list have no duplicates and ascend in calendar order, whatever
\* the number of digits of the years.
C16_LabelsInCalendarOrder ==
  (call.fn = "labels" /\ call.done /\ AllOk(call.data)) =>
    /\ \A x, z \in 1..Len(call.years) :
         x < z => call.years[x].n < call.years[z].n
    /\ \A x, z \in 1..Len(call.quarters) :
         x < z => QuarterOf(call.data, call.quarters[x]) < QuarterOf(call.data, call.quarters[z])

\* the same for datasets whose years all have four digits
C16_FourDigitYears ==
  (call.fn = "labels" /\ call.done /\ AllOk(call.data)
     /\ \A i \in 1..Len(call.data) : call.data[i].TableDate.y \in 1000..9999) =>
    /\ \A x, z \in 1..Len(call.years) :
         x < z => call.years[x].n < call.years[z].n
    /\ \A x, z \in 1..Len(call.quarters) :
         x < z => QuarterOf(call.data, call.quarters[x]) < QuarterOf(call.data, call.quarters[z])

\* the lists have no duplicates, whatever the dates
C16_NoDuplicates ==
  (call.fn = "labels" /\ call.done) =>
    /\ \A x, z \in 1..Len(call.years) :
         x # z => ~SameValueZero(call.years[x], call.years[z])
    /\ \A x, z \in 1..Len(call.quarters) : x # z => call.quarters[x] # call.quarters[z]

\* C17: every label of the lists is the period key of a record with a
\* valid date, and a list is empty exactly when the dataset has no such
\* record.
C17_LabelsOfValidRecordsOnly ==
  (call.fn = "labels" /\ call.done) =>
    LET valid == ValidData(call.data)
    IN /\ \A x \in 1..Len(call.years) :
            \E i \in 1..Len(valid) :
              SameValueZero(GetFullYear(valid[i].TableDate), call.years[x])
       /\ \A x \in 1..Len(call.quarters) :
            \E i \in 1..Len(valid) : QuarterLabel(valid[i].TableDate) = call.quarters[x]
       /\ Len(call.years) = 0 <=> Len(valid) = 0
       /\ Len(call.quarters) = 0 <=> Len(valid) = 0

\* the same for datasets of records with valid dates
C17_OnValidDates ==
  (call.fn = "labels" /\ call.done /\ AllOk(call.data)) =>
    LET valid == ValidData(call.data)
    IN /\ \A x \in 1..Len(call.years) :
            \E i \in 1..Len(valid) :
              SameValueZero(GetFullYear(valid[i].TableDate), call.years[x])
       /\ \A x \in 1..Len(call.quarters) :
            \E i \in 1..Len(valid) : QuarterLabel(valid[i].TableDate) = call.quarters[x]
       /\ Len(call.years) = 0 <=> Len(valid) = 0
       /\ Len(call.quarters) = 0 <=> Len(valid) = 0

\* ------------------------------------------ more on the chart pipeline
\* C18: every anomaly of the displayed chart has an index i with
\* 1 <= i < length(filteredData), was computed from filteredData[i - 1] and
\* filteredData[i], the indices ascend strictly, and the tooltip of the
\* displayed point idx shows exactly the anomaly of index idx.
C18_AnomalyIndexIsFilteredPosition ==
  (call.fn = "pipeline" /\ call.runs >= 1) =>
    LET out == call.last.out
        found == call.last.anomalies
        OfPair(i) == DetectAnomalies(<<out[i], out[i + 1]>>, Fin(2))
    IN /\ \A x \in 1..Len(found) :
            /\ found[x].index \in 1..(Len(out) - 1)
            /\ Len(OfPair(found[x].index)) = 1
            /\ found[x].type = OfPair(found[x].index)[1].type
            /\ found[x].percent = OfPair(found[x].index)[1].percent
       /\ \A x, z \in 1..Len(found) : x < z => found[x].index < found[z].index
       /\ Len(call.last.tooltips) = Len(out)
       /\ \A idx \in 0..(Len(out) - 1) :
            call.last.tooltips[idx + 1] = SelectSeq(found, LAMBDA a : a.index = idx)

\* an anomaly on a displayed point whose position in the dataset is not
\* its position in the filtered series, shown in that point's tooltip
C18_Witness ==
  /\ call.fn = "pipeline"
  /\ call.runs >= 1
  /\ ~call.annual
  /\ \E x \in 1..Len(call.last.anomalies) :
        LET i == call.last.anomalies[x].index
        IN /\ call.given[i + 1] # call.last.out[i + 1]
           /\ call.last.tooltips[i + 1] = <<call.last.anomalies[x]>>
           /\ call.last.tooltips[i] = <<>>

\* the insights that depend on percentChange: the change of the latest
\* period and the keyword insight
OfPercentChange(insights) == SelectSeq(insights, LAMBDA s : CategoryOf(s) \in {1, 5})

Earlier(a, b) == JSLt(GetTime(a.TableDate), GetTime(b.TableDate))

\* the insights of the percent change from record a to record b
PercentChangeOf(a, b, metric, annual) ==
  OfPercentChange(GenerateInsights(<<a, b>>, metric, annual))

\* the percent-change insights of the panel are those of the two
\* chronologically latest records of the filtered series
UsesLatestTwo(run, metric, annual) ==
  LET valid == ValidData(run.out)
      n == Len(valid)
  IN \A i, j \in 1..n :
       (/\ i # j
        /\ Earlier(valid[j], valid[i])
        /\ \A l \in 1..n \ {i, j} : Earlier(valid[l], valid[j]))
       => OfPercentChange(run.insights) = PercentChangeOf(valid[j], valid[i], metric, annual)

\* C19: the percent change of generateInsights is that of the two
\* chronologically latest records of the filtered series, in annual and in
\* quarterly view and whatever the order the records were supplied in.
C19_PercentChangeOfLatestTwo ==
  (call.fn = "pipeline" /\ call.runs >= 1 /\ ~call.last.threw) =>
    UsesLatestTwo(call.last, call.metric, call.annual)

\* it is so in annual view on records with valid dates, which come sorted
\* by year
C19_AnnualView ==
  (/\ call.fn = "pipeline" /\ call.runs >= 1 /\ ~call.last.threw /\ call.annual
   /\ \A i \in 1..Len(call.given) : IsValidRecord(call.given[i]))
    => UsesLatestTwo(call.last, call.metric, call.annual)

\* and in quarterly view when the records were supplied oldest first
C19_SuppliedOldestFirst ==
  (/\ call.fn = "pipeline" /\ call.runs >= 1 /\ ~call.last.threw /\ ~call.annual
   /\ \A i, j \in 1..Len(call.given) :
         (i < j /\ IsValidRecord(call.given[i]) /\ IsValidRecord(call.given[j]))
           => ~Earlier(call.given[j], call.given[i]))
    => UsesLatestTwo(call.last, call.metric, call.annual)

\* ------------------------------------------------- the trend insight
\* the last min(4, n) values of a series
LastFour(values) ==
  LET n == Len(values)
      from == IF n > 4 THEN n - 4 ELSE 0
  IN [k \in 1..(n - from) |-> values[from + k]]

\* the sum of the consecutive differences of a window of numbers
RECURSIVE SumOfDifferences(_)
SumOfDifferences(window) ==
  IF Len(window) < 2 THEN 0
  ELSE SumOfDifferences(SubSeq(window, 1, Len(window) - 1))
         + (window[Len(window)].n - window[Len(window) - 1].n)

AllNumbers(window) == \A k \in 1..Len(window) : window[k].k = "fin" /\ window[k].d = 1

\* C20: for a series of n >= 2 values, trend is the sum of the consecutive
\* differences over the last min(4, n) values divided by the window length
\* less 1; 'Upward trend' is emitted if and only if trend > 0, 'Downward
\* trend' if and only if trend < 0, and no trend insight when trend is 0
\* (or not a number, a value of the window missing).
C20_TrendSignOfLastFour ==
  (call.fn = "AIInsightsPanel" /\ call.done) =>
    LET values == InsightValuesOf(call.data)
        window == LastFour(values)
        total == SumOfDifferences(window)
        divisor == Len(window) - 1
    IN Len(values) >= 2 =>
         IF AllNumbers(window)
           THEN /\ Emits(call.out, "Upward trend") <=> total * divisor > 0
                /\ Emits(call.out, "Downward trend") <=> total * divisor < 0
           ELSE ~Emits(call.out, "Upward trend") /\ ~Emits(call.out, "Downward trend")

\* five values that end no higher than they start and yet rise over the
\* last four: the panel reports an upward trend
C20_Witness ==
  /\ call.fn = "AIInsightsPanel"
  /\ call.done
  /\ LET values == InsightValuesOf(call.data)
     IN /\ Len(values) = 5
        /\ AllNumbers(values)
        /\ values[5].n <= values[1].n
        /\ SumOfDifferences(LastFour(values)) > 0
        /\ Emits(call.out, "Upward trend")
        /\ ~Emits(call.out, "Downward trend")

\* ------------------------------------------- the volatility warning
RECURSIVE SumOf(_)
SumOf(window) ==
  IF Len(window) = 0 THEN 0 ELSE SumOf(SubSeq(window, 1, Len(window) - 1)) + window[Len(window)].n

Largest(window) == CHOOSE x \in {window[k].n : k \in 1..Len(window)} :
                     \A k \in 1..Len(window) : window[k].n <= x
Smallest(window) == CHOOSE x \in {window[k].n : k \in 1..Len(window)} :
                      \A k \in 1..Len(window) : window[k].n >= x

\* (max - min) / mean > 3/10 for a window of numbers, the quotient taken as
\* the division of the code takes it: on a mean of 0 it is +Infinity when
\* max > min and NaN when all values are 0
VolatilityAboveThreeTenths(window) ==
  LET spread == Largest(window) - Smallest(window)
      total == SumOf(window)
  IN IF total > 0 THEN 10 * Len(window) * spread > 3 * total
     ELSE IF total = 0 THEN spread > 0
     ELSE FALSE

\* C21: the 'High volatility' warning is emitted if and only if
\* (max - min) / mean over the last min(4, n) values of the series is
\* strictly greater than 0.3; a value of exactly 0.3 emits no warning; the
\* window is the one of the trend.
C21_VolatilityStrictlyAboveThreeTenths ==
  (call.fn = "AIInsightsPanel" /\ call.done) =>
    LET values == InsightValuesOf(call.data)
        window == LastFour(values)
    IN Len(values) >= 2 =>
         (Emits(call.out, "High volatility")
            <=> (AllNumbers(window) /\ VolatilityAboveThreeTenths(window)))

\* a window whose volatility is exactly 0.3, and no warning
C21_Witness ==
  /\ call.fn = "AIInsightsPanel"
  /\ call.done
  /\ LET window == LastFour(InsightValuesOf(call.data))
     IN /\ Len(window) >= 2
        /\ AllNumbers(window)
        /\ SumOf(window) > 0
        /\ 10 * Len(window) * (Largest(window) - Smallest(window)) = 3 * SumOf(window)
        /\ ~Emits(call.out, "High volatility")

\* ------------------------------------------ the percent-change insight
\* (latest - previous) / previous * 100 > 20 for numbers, the quotient
\* taken as the division of the code takes it (on a previous value of 0 it
\* is +Infinity, -Infinity or NaN)
ChangeAboveTwenty(previous, latest) ==
  IF previous > 0 THEN 5 * (latest - previous) > previous
  ELSE IF previous < 0 THEN 5 * (latest - previous) < previous
  ELSE latest > 0

\* (latest - previous) / previous * 100 < -20
ChangeBelowMinusTwenty(previous, latest) ==
  IF previous > 0 THEN 5 * (latest - previous) < -previous
  ELSE IF previous < 0 THEN 5 * (latest - previous) > -previous
  ELSE latest < 0

HasInsight(insights, type, head) ==
  \E x \in 1..Len(insights) : insights[x].type = type /\ insights[x].head = head

\* C22: the positive 'Strong growth' insight is emitted if and only if
\* percentChange > 20 and the negative 'Significant decline' insight if and
\* only if percentChange < -20; never both; a change of exactly +20% or
\* -20% emits neither.
C22_ChangeBeyondTwentyPercent ==
  (call.fn = "AIInsightsPanel" /\ call.done) =>
    LET values == InsightValuesOf(call.data)
        n == Len(values)
        numbers == AllNumbers(<<values[n - 1], values[n]>>)
    IN n >= 2 =>
         /\ Emits(call.out, "Strong growth") <=> HasInsight(call.out, "positive", "Strong growth")
         /\ Emits(call.out, "Significant decline")
               <=> HasInsight(call.out, "negative", "Significant decline")
         /\ Emits(call.out, "Strong growth")
               <=> (numbers /\ ChangeAboveTwenty(values[n - 1].n, values[n].n))
         /\ Emits(call.out, "Significant decline")
               <=> (numbers /\ ChangeBelowMinusTwenty(values[n - 1].n, values[n].n))
         /\ ~(Emits(call.out, "Strong growth") /\ Emits(call.out, "Significant decline"))

\* a rise of exactly 20%, and neither insight
C22_Witness ==
  /\ call.fn = "AIInsightsPanel"
  /\ call.done
  /\ LET values == InsightValuesOf(call.data)
         n == Len(values)
     IN /\ n >= 2
        /\ AllNumbers(<<values[n - 1], values[n]>>)
        /\ values[n - 1].n > 0
        /\ 5 * (values[n].n - values[n - 1].n) \in {values[n - 1].n, -values[n - 1].n}
        /\ values[n].n > values[n - 1].n
        /\ ~Emits(call.out, "Strong growth")
        /\ ~Emits(call.out, "Significant decline")

\* --------------------------------------------- the keyword insight
KeywordHeads == {"Revenue growth", "Profit growth", "Margin improvement"}

\* the sentence of the first keyword, in the order revenue, profit, margin,
\* that the metric name contains in lower or upper case letters
SentenceOf(metric) ==
  LET name == CodeUnits(metric)
      Holds(word) ==
        \E i \in 1..(Len(name) - Len(word) + 1) :
          \A k \in 1..Len(word) : name[i + k - 1] \in {word[k], word[k] - 32}
  IN IF Holds(CodeUnits("revenue")) THEN {"Revenue growth"}
     ELSE IF Holds(CodeUnits("profit")) THEN {"Profit growth"}
     ELSE IF Holds(CodeUnits("margin")) THEN {"Margin improvement"}
     ELSE {}

\* percentChange > 0, for numbers (on a previous value of 0 the change is
\* +Infinity, -Infinity or NaN)
ChangeAboveZero(previous, latest) ==
  IF previous > 0 THEN latest > previous
  ELSE IF previous < 0 THEN latest < previous
  ELSE latest > 0

\* C23: at most one keyword insight is emitted per run; it is the sentence
\* of the first of revenue, profit, margin that the metric name contains,
\* whatever its case (a name with both profit and margin yields the profit
\* sentence only), and it is emitted only when percentChange > 0.
C23_FirstKeywordOnly ==
  (call.fn = "AIInsightsPanel" /\ call.done) =>
    LET values == InsightValuesOf(call.data)
        n == Len(values)
        emitted == {x \in 1..Len(call.out) : call.out[x].head \in KeywordHeads}
        rising == /\ AllNumbers(<<values[n - 1], values[n]>>)
                  /\ ChangeAboveZero(values[n - 1].n, values[n].n)
    IN n >= 2 =>
         /\ Cardinality(emitted) <= 1
         /\ {call.out[x].head : x \in emitted} = IF rising THEN SentenceOf(call.metric) ELSE {}

\* a rising metric whose name holds both profit and margin: the profit
\* sentence and no other
C23_Witness ==
  /\ call.fn = "AIInsightsPanel"
  /\ call.done
  /\ MetricIncludes(call.metric, "profit")
  /\ MetricIncludes(call.metric, "margin")
  /\ Emits(call.out, "Profit growth")
  /\ ~Emits(call.out, "Margin improvement")

MaxMessages == 2

\* what the user can have typed: nothing, blanks, a question, a question
\* within blanks
TypedMessages == {<<>>, <<32>>, <<10, 32>>, <<104, 105>>, <<32, 113, 50, 10>>}

\* data.response of the backend: an answer, or an empty string
Replies == {<<52, 50>>, <<>>}

WhiteSpace == {9, 10, 11, 12, 13, 32}

\* String.prototype.trim
RECURSIVE Trim(_)
Trim(s) ==
  IF Len(s) = 0 THEN s
  ELSE IF s[1] \in WhiteSpace THEN Trim(Tail(s))
  ELSE IF s[Len(s)] \in WhiteSpace THEN Trim(SubSeq(s, 1, Len(s) - 1))
  ELSE s

StrError == <<69, 114, 114, 111, 114, 58, 32>>
StrTryAgain == <<46, 32, 80, 108, 101, 97, 115, 101, 32, 116, 114, 121, 32, 97, 103, 97, 105, 110, 32, 111, 114, 32, 114, 101, 112, 104, 114, 97, 115, 101, 32, 121, 111, 117, 114, 32, 113, 117, 101, 115, 116, 105, 111, 110, 46>>
StrNoResponse == <<70, 97, 105, 108, 101, 100, 32, 116, 111, 32, 103, 101, 116, 32, 114, 101, 115, 112, 111, 110, 115, 101, 32, 102, 114, 111, 109, 32, 115, 101, 114, 118, 101, 114>>
StrBackendFailed == <<70, 97, 105, 108, 101, 100, 32, 116, 111, 32, 103, 101, 116, 32, 114, 101, 115, 112, 111, 110, 115, 101, 32, 102, 114, 111, 109, 32, 98, 97, 99, 107, 101, 110, 100>>
StrFailedToFetch == <<70, 97, 105, 108, 101, 100, 32, 116, 111, 32, 102, 101, 116, 99, 104>>

\* `Error: ${error.message}. Please try again or rephrase your question.`
ErrorContent(message) == StrError \o message \o StrTryAgain

\* the ways sendChatMessage completes: data.response, or a throw on a
\* response that is not ok, or the rejection of fetch
Completions ==
  {[ok |-> TRUE, response |-> r] : r \in Replies}
    \cup {[ok |-> FALSE, response |-> m] : m \in {StrBackendFailed, StrFailedToFetch}}

\* an input that is never disabled
NeverDisabled(isLoading) == FALSE

\* disabled={isLoading} of the TextField
InputDisabled(isLoading) == isLoading

ChatInit ==
  /\ Parked
  /\ call = [fn |-> "chat", isOpen |-> FALSE, message |-> <<>>, chatHistory |-> <<>>,
             isLoading |-> FALSE, pending |-> <<>>, sent |-> 0]

\* the floating button: setIsOpen(true)
OpenChat ==
  /\ call.fn = "chat"
  /\ ~call.isOpen
  /\ call' = [call EXCEPT !.isOpen = TRUE]
  /\ UNCHANGED tabVars

\* the close button of the panel: setIsOpen(false)
CloseChat ==
  /\ call.fn = "chat"
  /\ call.isOpen
  /\ call' = [call EXCEPT !.isOpen = FALSE]
  /\ UNCHANGED tabVars

\* onChange of the TextField: setMessage(e.target.value)
TypeMessage ==
  /\ call.fn = "chat"
  /\ call.isOpen
  /\ ~InputDisabled(call.isLoading)
  /\ \E m \in TypedMessages \ {call.message} : call' = [call EXCEPT !.message = m]
  /\ UNCHANGED tabVars

\* handleSend up to its await, called by Enter in the TextField or by the
\* send button (disabled on a blank message): a blank message returns at
\* once
HandleSend ==
  /\ call.fn = "chat"
  /\ call.isOpen
  /\ ~InputDisabled(call.isLoading)
  /\ call.sent < MaxMessages
  /\ IF Trim(call.message) = <<>>
       THEN UNCHANGED call
       ELSE call' = [call EXCEPT
                       !.chatHistory = Append(@, [role |-> "user", content |-> call.message]),
                       !.message = <<>>,
                       !.isLoading = TRUE,
                       !.pending = Append(@, call.message),
                       !.sent = @ + 1]
  /\ UNCHANGED tabVars

\* handleSend after its await: the reply, or the error text when the
\* request failed or the reply is empty, then setIsLoading(false)
SendCompletes ==
  /\ call.fn = "chat"
  /\ \E i \in 1..Len(call.pending), c \in Completions :
        LET content == IF c.ok /\ c.response # <<>> THEN c.response
                       ELSE IF c.ok THEN ErrorContent(StrNoResponse)
                       ELSE ErrorContent(c.response)
        IN call' = [call EXCEPT
                      !.chatHistory = Append(@, [role |-> "assistant", content |-> content]),
                      !.isLoading = FALSE,
                      !.pending = SubSeq(@, 1, i - 1) \o SubSeq(@, i + 1, Len(@))]
  /\ UNCHANGED tabVars

ChatNext == OpenChat \/ CloseChat \/ TypeMessage \/ HandleSend \/ SendCompletes

SpecChat == ChatInit /\ [][ChatNext]_vars

IsErrorContent(content) ==
  /\ Len(content) > Len(StrError) + Len(StrTryAgain)
  /\ SubSeq(content, 1, Len(StrError)) = StrError
  /\ SubSeq(content, Len(content) - Len(StrTryAgain) + 1, Len(content)) = StrTryAgain

\* user and assistant entries alternate from a user entry on, the user
\* entries are not blank, the assistant entries are a reply or an error
\* text, and isLoading is true exactly while a request is outstanding
ChatInOrder ==
  LET history == call.chatHistory
  IN /\ \A i \in 1..Len(history) :
          history[i].role = IF i % 2 = 1 THEN "user" ELSE "assistant"
     /\ \A i \in 1..Len(history) :
          IF history[i].role = "user" THEN Trim(history[i].content) # <<>>
          ELSE history[i].content # <<>>
                 /\ (history[i].content \in Replies \/ IsErrorContent(history[i].content))
     /\ call.isLoading <=> Len(call.pending) > 0
     /\ Len(call.pending) <= 1
     /\ Len(history) = 2 * call.sent - Len(call.pending)

\* an entry is added only at the end and one at a time: a user entry by a
\* message that is not blank, sent while isLoading is false, with isLoading
\* true at once; an assistant entry by the completion of the request
ChatStep ==
  LET before == call.chatHistory
      after == call'.chatHistory
  IN /\ after # before =>
          /\ Len(after) = Len(before) + 1
          /\ SubSeq(after, 1, Len(before)) = before
          /\ after[Len(after)].role = "user" =>
                /\ ~call.isLoading
                /\ Trim(call.message) # <<>>
                /\ after[Len(after)].content = call.message
                /\ call'.isLoading
          /\ after[Len(after)].role = "assistant" =>
                /\ call.isLoading
                /\ ~call'.isLoading
                /\ Len(call'.pending) = Len(call.pending) - 1
     /\ (Trim(call.message) = <<>> /\ call'.pending = call.pending) => after = before

\* C29: after any sequence of chat sends and backend responses or failures,
\* chatHistory strictly alternates user and assistant entries starting with
\* a user entry: a blank message adds nothing, each accepted message adds
\* one user entry at once and exactly one assistant entry (the reply, or an
\* 'Error: ...' text when the request fails or the reply is empty) when its
\* request completes, isLoading is true exactly while a request is
\* outstanding, and no second message is accepted while isLoading is true.
C29_ChatAlternates ==
  /\ [](call.fn = "chat" => ChatInOrder)
  /\ [][call.fn = "chat" => ChatStep]_vars

\* two messages sent, one answered by a reply and one by an error text
C29_Witness ==
  /\ call.fn = "chat"
  /\ Len(call.chatHistory) = 4
  /\ ~call.isLoading
  /\ \E i, j \in {2, 4} :
        /\ call.chatHistory[i].content \in Replies
        /\ IsErrorContent(call.chatHistory[j].content)

\* ------------------------------------------- specification: Navigation
\* App's mainTab, subTab and selectedCompany, the effect of Navigation that
\* follows a change of mainTab, and what renderContent hands to MetricsTab.
\* As in the tab component, an action is a handler and the render it
\* causes, and an event is handled once the effect has run.

MainTabs == {"metrics", "comparisons", "ratios"}

\* getSubTabs(mainTab)
GetSubTabs(mainTab) ==
  CASE mainTab = "metrics" ->
         <<"Revenue", "COGS", "Gross Profit", "Operating Expenses", "Operating Income",
           "Net Income">>
    [] mainTab = "comparisons" ->
         <<"Revenue vs COGS", "Revenue vs Gross Profit", "Gross Profit vs Operating Expenses",
           "Operating Income vs Operating Expenses", "Operating Income vs. Net Income",
           "Revenue vs. Net Income">>
    [] mainTab = "ratios" -> <<"Gross Margin(%)", "Operating Margin(%)", "Net Margin(%)">>
    [] OTHER -> <<>>

SubTabsOf(mainTab) == {GetSubTabs(mainTab)[i] : i \in 1..Len(GetSubTabs(mainTab))}

NoMetricsTab == "none"

\* renderContent: the selectedMetric of the MetricsTab it returns, if it
\* returns one
RenderContent(company, mainTab, subTab) ==
  IF company = "" THEN NoMetricsTab
  ELSE IF mainTab = "metrics" THEN subTab
  ELSE NoMetricsTab

NavigationInit ==
  /\ Parked
  /\ call = [fn |-> "navigation", mainTab |-> "metrics", subTab |-> "Revenue",
             selectedCompany |-> "", companies |-> {}, darkMode |-> FALSE,
             effectDue |-> TRUE, handed |-> RenderContent("", "metrics", "Revenue")]

\* the effect of Navigation: onSubTabChange(subTabs[0]) unless subTab is
\* one of the sub-tabs of mainTab
SubTabAfterEffect(mainTab, subTab) ==
  IF Len(GetSubTabs(mainTab)) > 0 /\ subTab \notin SubTabsOf(mainTab)
    THEN GetSubTabs(mainTab)[1]
    ELSE subTab

NavigationEffect ==
  /\ call.fn = "navigation"
  /\ call.effectDue
  /\ LET next == SubTabAfterEffect(call.mainTab, call.subTab)
     IN call' = [call EXCEPT !.subTab = next,
                              !.effectDue = FALSE,
                              !.handed = RenderContent(call.selectedCompany, call.mainTab, next)]
  /\ UNCHANGED tabVars

\* the main Tabs: onMainTabChange(newValue), for a tab other than the
\* selected one
ChangeMainTab ==
  /\ call.fn = "navigation"
  /\ ~call.effectDue
  /\ \E newValue \in MainTabs \ {call.mainTab} :
        call' = [call EXCEPT !.mainTab = newValue,
                              !.effectDue = TRUE,
                              !.handed = RenderContent(call.selectedCompany, newValue,
                                                       call.subTab)]
  /\ UNCHANGED tabVars

\* the sub Tabs, rendered when mainTab === 'metrics': onSubTabChange(newValue)
ChangeSubTab ==
  /\ call.fn = "navigation"
  /\ ~call.effectDue
  /\ call.mainTab = "metrics"
  /\ \E newValue \in SubTabsOf(call.mainTab) \ {call.subTab} :
        call' = [call EXCEPT !.subTab = newValue,
                              !.handed = RenderContent(call.selectedCompany, call.mainTab,
                                                       newValue)]
  /\ UNCHANGED tabVars

\* the response of fetchCompanies: setCompanies(response.data)
CompaniesArrive ==
  /\ call.fn = "navigation"
  /\ ~call.effectDue
  /\ call.companies = {}
  /\ call' = [call EXCEPT !.companies = Companies]
  /\ UNCHANGED tabVars

\* the theme button of the Header: setDarkMode(prev => !prev)
ToggleDarkMode ==
  /\ call.fn = "navigation"
  /\ ~call.effectDue
  /\ call' = [call EXCEPT !.darkMode = ~call.darkMode]
  /\ UNCHANGED tabVars

\* the company Select of the Header, one MenuItem per company:
\* setSelectedCompany
SelectCompany ==
  /\ call.fn = "navigation"
  /\ ~call.effectDue
  /\ \E c \in call.companies \ {call.selectedCompany} :
        call' = [call EXCEPT !.selectedCompany = c,
                              !.handed = RenderContent(c, call.mainTab, call.subTab)]
  /\ UNCHANGED tabVars

NavigationNext ==
  \/ NavigationEffect
  \/ ChangeMainTab
  \/ ChangeSubTab
  \/ CompaniesArrive
  \/ ToggleDarkMode
  \/ SelectCompany

SpecNavigation == NavigationInit /\ [][NavigationNext]_vars

\* once the effect has run subTab is a sub-tab of mainTab, and the effect
\* leaves a subTab that is one alone and otherwise takes the first
SubTabOfMainTab ==
  /\ [](call.fn = "navigation" /\ ~call.effectDue
          => call.subTab \in SubTabsOf(call.mainTab))
  /\ [][(call.fn = "navigation" /\ call.effectDue /\ ~call'.effectDue) =>
          call'.subTab = IF call.subTab \in SubTabsOf(call.mainTab) THEN call.subTab
                         ELSE GetSubTabs(call.mainTab)[1]]_vars

\* C30: after any sequence of main-tab and sub-tab changes, once the
\* Navigation effect has run, subTab is a member of getSubTabs(mainTab); a
\* subTab that is already a member is left unchanged, otherwise it becomes
\* the first sub-tab of the new main tab; and the metric handed to
\* MetricsTab while the metrics tab is shown is always one of the metrics
\* sub-tabs.
C30_SubTabOfMainTabAlways ==
  /\ SubTabOfMainTab
  /\ [](call.fn = "navigation" /\ call.handed # NoMetricsTab
          => call.handed \in SubTabsOf("metrics"))

\* the part on subTab holds
C30_SubTabOfMainTab == SubTabOfMainTab

\* and the metric handed to MetricsTab is a metrics sub-tab once the effect
\* has run
C30_MetricAfterEffect ==
  (call.fn = "navigation" /\ ~call.effectDue /\ call.handed # NoMetricsTab)
    => call.handed \in SubTabsOf("metrics")
====
